---- MODULE Spec2Model ----
(***************************************************************************)
(* Asset lifecycle of the digital-asset-management backend: the HTTP       *)
(* routes of AssetsController (roles guard, per-route checks) and the      *)
(* AssetsService methods behind them, over the metadata table, the object  *)
(* store and the users table.  Every handler is a request in a slot; each  *)
(* awaited call that can fail or that changes state is one step of it.     *)
(***************************************************************************)
EXTENDS Naturals, FiniteSets, Sequences, TLC

\* ------------------------------------------------------------------ bounds
\* Number of uploads that reach the object store (each draws a fresh uuid).
MaxUploads == 2

\* Number of uploads in the histories with one request in flight.
SeqUploads == 1

\* ------------------------------------------------------------- value sets
Users == {"u1", "u2"}
Roles == {"admin", "user", "viewer"}
Slots == {"r1", "r2"}
AssetIds == 1..MaxUploads
Null == "null"
\* users table: no row for the principal.
NoUser == "absent"
\* The role in the payload of each principal's token, signed at login.
TokenRole == [u \in Users |-> IF u = "u1" THEN "admin" ELSE "user"]
Undefined == "undefined"
TextVals == {"t2"}
NoRow == [absent |-> TRUE]
NoUrl == <<>>
NoKey == <<>>

\* Webhook destinations that can be registered.
Urls == {"d1", "d2"}

\* sendWithRetry: maxRetries = 5
MaxRetries == 5

\* What one axios.post can end in: a 2xx response, a response with another
\* status, the 10 s timeout, a network error.
Outcomes == {"2xx", "non2xx", "timeout", "network"}

\* The multipart file of an upload request (Express.Multer.File).
File == [originalname |-> "photo.jpg", size |-> 2048, mimetype |-> "image/jpeg"]

VARIABLES
    users,       \* users table: principal -> roleName
    assets,      \* assets table: asset id -> row, or NoRow
    nextId,      \* next primary key the assets table generates
    nextUuid,    \* next value uuidv4() returns to uploadFile
    blobs,       \* keys of the objects held by the object store
    publicKeys,  \* keys whose ACL is public-read
    req,         \* request slot -> the handler running in it
    webhookUrls, \* WebhookService.webhookUrls: the registered destinations
    detached,    \* asset id -> the 'asset.uploaded' dispatch nobody awaits
    receiver     \* a receiver of notifications: its clock, the deliveries it
                 \* saw, and its last call of verifySignature

vars == <<users, assets, nextId, nextUuid, blobs, publicKeys, req, webhookUrls, detached,
          receiver>>

\* --------------------------------------------------------- pure functions

\* Mutant: the key is built from the owner and the file name alone.
StorageKey_NoUuid(userId, originalname, uuid) == <<userId, originalname>>

\* S3Service.uploadFile: storageKey = `${userId}/${sanitized}-${uuidv4()}.${ext}`
StorageKey(userId, originalname, uuid) == <<userId, originalname, uuid>>

\* S3Service.makePublic: the permanent URL of a key
PublicUrl(key) == <<"https", key>>

\* S3Service.getSignedUrl(key, expiresIn): the URL is signed for the key and the
\* expiry alone; the method takes no filename and sets no content disposition.
SignedUrl(key, expiresIn) == <<"signed", key, expiresIn>>

\* S3Service.detectAssetType
DetectAssetType(mimeType) ==
    CASE mimeType \in {"image/jpeg", "image/png"} -> "image"
      [] mimeType \in {"video/mp4"} -> "video"
      [] mimeType \in {"audio/mpeg"} -> "audio"
      [] mimeType \in {"application/pdf", "application/msword", "text/plain"} -> "document"
      [] OTHER -> "other"

\* Mutant: the guard lets every role through.
RolesGuard_AllowAll(requiredRoles, role) == TRUE

\* RolesGuard.canActivate: the route's @Roles list against request.user.role
RolesGuard(requiredRoles, role) == role \in requiredRoles

\* Mutant: the admin exemption of the ownership check is missing.
GetAssetVerdict_NoAdmin(role, userId, asset) ==
    IF role = "viewer" /\ ~asset.isShared THEN "Forbidden"
    ELSE IF asset.uploaderId # userId /\ ~asset.isShared THEN "Forbidden"
    ELSE "Ok"

\* AssetsController.getAsset: the two checks after getAssetById
GetAssetVerdict(role, userId, asset) ==
    IF role = "viewer" /\ ~asset.isShared THEN "Forbidden"
    ELSE IF role # "admin" /\ asset.uploaderId # userId /\ ~asset.isShared THEN "Forbidden"
    ELSE "Ok"

\* AssetsController.getDownloadUrl: the viewer-only check before the service call
DownloadVerdict(role, userId, asset) ==
    IF role = "viewer" /\ ~asset.isShared THEN "Forbidden" ELSE "Ok"

\* Mutant: updateAsset without its ownership check.
UpdateVerdict_NoCheck(asset, userId) == "Ok"

\* AssetsService.updateAsset: ownership check
UpdateVerdict(asset, userId) ==
    IF asset.uploaderId # userId THEN "Forbidden" ELSE "Ok"

\* Mutant: deleteAsset without the admin override.
DeleteVerdict_NoAdmin(asset, userId, userRole) ==
    IF asset.uploaderId # userId THEN "Forbidden" ELSE "Ok"

\* AssetsService.deleteAsset: ownership check with the admin override
DeleteVerdict(asset, userId, userRole) ==
    IF asset.uploaderId # userId /\ userRole # "admin" THEN "Forbidden" ELSE "Ok"

\* Mutant: shareAsset without its ownership check.
ShareVerdict_NoCheck(asset, userId) == "Ok"

\* AssetsService.shareAsset: ownership check
ShareVerdict(asset, userId) ==
    IF asset.uploaderId # userId THEN "Forbidden" ELSE "Ok"

\* Mutant: both fields are assigned whether supplied or not.
ApplyUpdates_Overwrite(asset, updates) ==
    [asset EXCEPT !.tags = updates.tags, !.description = updates.description]

\* AssetsService.updateAsset: "Apply updates"
ApplyUpdates(asset, updates) ==
    [asset EXCEPT
        !.tags = IF updates.tags # Undefined THEN updates.tags ELSE @,
        !.description = IF updates.description # Undefined THEN updates.description ELSE @]

\* Mutant: the flag is set and the URL is not stored.
MarkShared_NoUrl(asset, publicUrl) == [asset EXCEPT !.isShared = TRUE]

\* AssetsService.shareAsset: "Update asset record"
MarkShared(asset, publicUrl) ==
    [asset EXCEPT !.isShared = TRUE, !.sharedUrl = publicUrl]

\* AssetsService.uploadAsset: assetRepository.create({...})
NewAsset(id, file, key, userId, tags, description) ==
    [id |-> id,
     filename |-> file.originalname,
     s3Key |-> key,
     size |-> file.size,
     assetType |-> DetectAssetType(file.mimetype),
     tags |-> IF tags = Undefined THEN Null ELSE tags,
     description |-> IF description = Undefined THEN Null ELSE description,
     uploaderId |-> userId,
     isShared |-> FALSE,
     sharedUrl |-> NoUrl]

\* ---------------------------------------------------------------- webhooks
\* The retry loop of one destination: where it stands (none: no loop; post: a
\* POST is in flight; sleep: backing off; ok: returned after a 2xx; gaveup:
\* returned after the last attempt failed; exit: the while condition failed),
\* the value of attempt, the POSTs made and the delays slept, in ms.
NoLoop == [pc |-> "none", attempt |-> 0, posts |-> 0, delays |-> <<>>]

\* No dispatch: triggerWebhook was not called, or returned at once.
NoDispatch == [u \in Urls |-> NoLoop]

\* sendWithRetry is entered: attempt = 0 and the first POST is sent.
SendWithRetry == [pc |-> "post", attempt |-> 0, posts |-> 1, delays |-> <<>>]

\* Mutant: the loop backs off and retries after the last attempt as well.
Attempt_NoGiveUp(loop, outcome) ==
    IF outcome = "2xx"
    THEN [loop EXCEPT !.pc = "ok"]
    ELSE [loop EXCEPT !.pc = "sleep", !.delays = Append(@, 2 ^ loop.attempt * 1000)]

\* Mutant: the delay grows by one second per attempt instead of doubling.
Attempt_Linear(loop, outcome) ==
    IF outcome = "2xx"
    THEN [loop EXCEPT !.pc = "ok"]
    ELSE IF loop.attempt = MaxRetries - 1
    THEN [loop EXCEPT !.pc = "gaveup"]
    ELSE [loop EXCEPT !.pc = "sleep", !.delays = Append(@, (loop.attempt + 1) * 1000)]

\* sendWithRetry, the POST in flight ends: axios resolves a 2xx response and
\* the loop returns; axios rejects every other outcome, the catch block
\* returns on the last attempt and otherwise sleeps 2^attempt * 1000 ms.
Attempt(loop, outcome) ==
    IF outcome = "2xx"
    THEN [loop EXCEPT !.pc = "ok"]
    ELSE IF loop.attempt = MaxRetries - 1
    THEN [loop EXCEPT !.pc = "gaveup"]
    ELSE [loop EXCEPT !.pc = "sleep", !.delays = Append(@, 2 ^ loop.attempt * 1000)]

\* sendWithRetry, the sleep is over: attempt++, the while condition, the next POST.
Wake(loop) ==
    IF loop.attempt + 1 < MaxRetries
    THEN [loop EXCEPT !.attempt = @ + 1, !.posts = @ + 1, !.pc = "post"]
    ELSE [loop EXCEPT !.attempt = @ + 1, !.pc = "exit"]

InList(url, list) == \E i \in 1..Len(list): list[i] = url

\* Mutant: only the first registered destination is sent to.
StartDispatch_FirstOnly(list) ==
    [u \in Urls |-> IF Len(list) > 0 /\ list[1] = u THEN SendWithRetry ELSE NoLoop]

\* triggerWebhook: nothing when no URL is registered, otherwise sendWithRetry
\* is started for every registered URL.
StartDispatch(list) ==
    [u \in Urls |-> IF InList(u, list) THEN SendWithRetry ELSE NoLoop]

LoopEnded(loop) == loop.pc \in {"none", "ok", "gaveup", "exit"}

\* Promise.allSettled(promises) resolves: every loop has returned.
Settled(dispatch) == \A u \in Urls: LoopEnded(dispatch[u])

\* -------------------------------------------------------------- signatures
\* WebhookService.webhookSecret, and a key it is not.
WebhookSecret == "your-webhook-secret-key"
OtherSecret == "another-key"

\* Date.now(), in milliseconds: the values the clock takes.
StartTime == 1000
Clock == {StartTime, StartTime + 300000, StartTime + 300001, StartTime + 699000}

\* Text is a sequence of characters.
DigitChars == <<"0", "1", "2", "3", "4", "5", "6", "7", "8", "9">>
DigitSet == {DigitChars[i] : i \in 1..10}
DigitValue(c) == (CHOOSE i \in 1..10 : DigitChars[i] = c) - 1

\* Number.prototype.toString of a non-negative integer.
RECURSIVE NumberToString(_)
NumberToString(n) ==
    IF n < 10 THEN <<DigitChars[n + 1]>>
    ELSE NumberToString(n \div 10) \o <<DigitChars[(n % 10) + 1]>>

\* A number of JavaScript: an integer or NaN.
NaN == [nan |-> TRUE, value |-> 0]
Number(n) == [nan |-> FALSE, value |-> n]

RECURSIVE TrimStart(_)
TrimStart(s) == IF s # <<>> /\ Head(s) = " " THEN TrimStart(Tail(s)) ELSE s

RECURSIVE LeadingDigits(_)
LeadingDigits(s) ==
    IF s = <<>> \/ Head(s) \notin DigitSet THEN <<>>
    ELSE <<Head(s)>> \o LeadingDigits(Tail(s))

RECURSIVE Decimal(_)
Decimal(ds) ==
    IF ds = <<>> THEN 0
    ELSE Decimal(SubSeq(ds, 1, Len(ds) - 1)) * 10 + DigitValue(ds[Len(ds)])

\* parseInt(text): leading white space, an optional sign, then the longest
\* run of digits; NaN when there is no digit.
ParseInt(s) ==
    LET t == TrimStart(s)
        signed == t # <<>> /\ Head(t) \in {"-", "+"}
        ds == LeadingDigits(IF signed THEN Tail(t) ELSE t)
    IN  IF ds = <<>> THEN NaN
        ELSE Number(IF signed /\ Head(t) = "-" THEN 0 - Decimal(ds) ELSE Decimal(ds))

\* currentTime - payloadTimestamp, Math.abs and > on numbers: NaN propagates
\* and every comparison with NaN is false.
Minus(n, x) == IF x.nan THEN NaN ELSE Number(n - x.value)
MathAbs(x) == IF x.nan THEN NaN ELSE Number(IF x.value < 0 THEN 0 - x.value ELSE x.value)
Greater(x, n) == ~x.nan /\ x.value > n

FiveMinutes == 5 * 60 * 1000

\* JSON.stringify of the payload triggerWebhook builds.
JsonStringify(payload) == <<"json", payload.event, payload.timestamp, payload.data>>

\* HMAC-SHA256 of text under a key, as hex: 64 characters; different keys or
\* texts give different digests.
Hmac(key, text) == [key |-> key, text |-> text, length |-> 64]

\* WebhookService.signPayload
SignPayload(payload) == Hmac(WebhookSecret, payload)

\* crypto.timingSafeEqual on Buffer.from of two strings: throws on buffers of
\* different lengths.
TimingSafeEqual(a, b) ==
    IF a.length # b.length THEN "throws"
    ELSE IF a = b THEN "true" ELSE "false"

\* Mutant: no freshness check.
VerifySignature_NoFreshness(payload, signature, timestamp, currentTime) ==
    LET equal == TimingSafeEqual(signature, SignPayload(payload))
    IN  IF equal = "throws" THEN "false" ELSE equal

\* WebhookService.verifySignature: the freshness check on the timestamp
\* argument, then the comparison with the recomputed signature; the catch
\* block turns every exception into false.
VerifySignature(payload, signature, timestamp, currentTime) ==
    LET payloadTimestamp == ParseInt(timestamp)
    IN  IF Greater(MathAbs(Minus(currentTime, payloadTimestamp)), FiveMinutes)
        THEN "false"
        ELSE LET equal == TimingSafeEqual(signature, SignPayload(payload))
             IN  IF equal = "throws" THEN "false" ELSE equal

\* The receiver has not called verifySignature yet.
NoCall ==
    [made |-> FALSE, payload |-> <<"json", "none", 0, "none">>,
     signature |-> Hmac(OtherSecret, <<"json", "none", 0, "none">>),
     timestamp |-> <<>>, now |-> 0, result |-> "none"]

\* ------------------------------------------------------------ request slots
NoUpdates == [tags |-> Undefined, description |-> Undefined]

Idle ==
    [op |-> "none", pc |-> "idle", userId |-> "u1", role |-> "user", id |-> 1,
     before |-> NoRow, asset |-> NoRow, key |-> NoKey, updates |-> NoUpdates,
     result |-> "none", message |-> "none", list |-> {}, url |-> NoUrl,
     activity |-> {}, logged |-> {}, events |-> {}, hook |-> NoDispatch,
     s3Deleted |-> FALSE, s3Uploaded |-> FALSE, error |-> "none",
     target |-> "u1", failed |-> {}]

Free(r) == req[r].pc \in {"idle", "done"}

\* Mutant: the request carries the role of the token's payload.
Start_TokenRole(op, userId, id) ==
    [Idle EXCEPT !.op = op, !.userId = userId, !.role = TokenRole[userId], !.id = id,
                 !.before = IF id \in AssetIds THEN assets[id] ELSE NoRow]

\* A handler that starts: JwtStrategy.validate attaches the stored role.
\* "before" keeps the row the request addresses as it is when the request
\* arrives.
Start(op, userId, id) ==
    [Idle EXCEPT !.op = op, !.userId = userId, !.role = users[userId], !.id = id,
                 !.before = IF id \in AssetIds THEN assets[id] ELSE NoRow]

\* The guards refuse the request: JwtStrategy.validate throws
\* UnauthorizedException when the principal has no row, RolesGuard answers 403.
Denied(role) == IF role = NoUser THEN "Unauthorized" ELSE "Forbidden"

\* The handler returns or throws: the response the caller receives.
Finish(rec, result) == [rec EXCEPT !.pc = "done", !.result = result]

\* An awaited call throws: "s3" an InternalServerErrorException of S3Service,
\* "db" the error of the metadata store.
Throw(rec, error) == [rec EXCEPT !.error = error]

\* The message of the error an awaited call threw: S3Service wraps every
\* failure of the object store in an InternalServerErrorException with a fixed
\* text per operation; the metadata store's error carries the driver's text.
DriverMessage == "QueryFailedError: <driver text>"
ErrorMessage(op, error) ==
    IF error = "db" THEN DriverMessage
    ELSE IF op = "upload" THEN "Failed to upload file"
    ELSE IF op = "delete" THEN "Failed to delete file"
    ELSE "Failed to make file public"

\* uploadAsset's catch block: the message of the exception it throws.
UploadFailure(error) == "Failed to upload file: " \o ErrorMessage("upload", error)

\* LoggerService.logUpload / logDelete / logView / logShare / logError are called.
LogActivity(rec, kind) == [rec EXCEPT !.activity = @ \cup {kind}]

\* LoggerService.log: the entry is saved, or the save throws and the error is
\* caught and printed; either way log returns normally.
Log(rec, kind, saved) ==
    [LogActivity(rec, kind) EXCEPT !.logged = IF saved THEN @ \cup {kind} ELSE @]

\* WebhookService.triggerWebhook is called.
TriggerWebhook(rec, event) == [rec EXCEPT !.events = @ \cup {event}]

Init ==
    /\ users = [u \in Users |-> IF u = "u1" THEN "admin" ELSE "user"]
    /\ assets = [i \in AssetIds |-> NoRow]
    /\ nextId = 1
    /\ nextUuid = 1
    /\ blobs = {}
    /\ publicKeys = {}
    /\ req = [r \in Slots |-> Idle]
    /\ webhookUrls = <<>>
    /\ detached = [i \in AssetIds |-> NoDispatch]
    /\ receiver = [now |-> StartTime, wire |-> {}, call |-> NoCall]


\* ------------------------------------------------------------------ upload
\* POST /assets: @Roles('user','admin'), the file check, then uploadAsset starts.
BeginUpload(r, userId, hasFile, tags, description) ==
    /\ Free(r)
    /\ LET rec == [Start("upload", userId, nextId) EXCEPT
                      !.updates = [tags |-> tags, description |-> description]]
       IN  IF ~RolesGuard({"user", "admin"}, rec.role)
           THEN req' = [req EXCEPT ![r] = Finish(rec, Denied(rec.role))]
           ELSE IF ~hasFile
           THEN req' = [req EXCEPT ![r] = Finish(rec, "InternalError")]
           ELSE /\ nextUuid <= MaxUploads
                /\ req' = [req EXCEPT ![r] = [rec EXCEPT !.pc = "upload_s3"]]
    /\ UNCHANGED <<users, assets, nextId, nextUuid, blobs, publicKeys, webhookUrls, detached, receiver>>

\* Mutant: the failure of uploadFile is swallowed and the row is saved anyway.
UploadS3Fail_Swallowed(r) ==
    /\ req[r].pc = "upload_s3"
    /\ req' = [req EXCEPT ![r] = [Throw(@, "s3") EXCEPT !.pc = "upload_save"]]
    /\ UNCHANGED <<users, assets, nextId, nextUuid, blobs, publicKeys, webhookUrls, detached, receiver>>

\* uploadAsset: s3Service.uploadFile throws; the catch block logs and rethrows.
UploadS3Fail(r) ==
    /\ req[r].pc = "upload_s3"
    /\ \E saved \in BOOLEAN:
           req' = [req EXCEPT ![r] =
               Finish(Log([Throw(@, "s3") EXCEPT !.message = UploadFailure("s3")],
                          "failed_upload", saved), "StorageFailure")]
    /\ UNCHANGED <<users, assets, nextId, nextUuid, blobs, publicKeys, webhookUrls, detached, receiver>>

\* uploadAsset: s3Service.uploadFile writes the object under a fresh key, ACL private.
UploadS3Ok(r) ==
    /\ req[r].pc = "upload_s3"
    /\ LET key == StorageKey(req[r].userId, File.originalname, nextUuid)
       IN  /\ blobs' = blobs \cup {key}
           /\ publicKeys' = publicKeys \ {key}
           /\ req' = [req EXCEPT ![r] = [@ EXCEPT !.key = key, !.s3Uploaded = TRUE,
                                                  !.pc = "upload_save"]]
    /\ nextUuid' = nextUuid + 1
    /\ UNCHANGED <<users, assets, nextId, webhookUrls, detached, receiver>>

\* uploadAsset: assetRepository.save throws; the catch block logs and rethrows
\* an InternalServerErrorException.  The object written before stays.
UploadSaveFail(r) ==
    /\ req[r].pc = "upload_save"
    /\ \E saved \in BOOLEAN:
           req' = [req EXCEPT ![r] =
               Finish(Log([Throw(@, "db") EXCEPT !.message = UploadFailure("db")],
                          "failed_upload", saved), "StorageFailure")]
    /\ UNCHANGED <<users, assets, nextId, nextUuid, blobs, publicKeys, webhookUrls, detached, receiver>>

\* uploadAsset: the row is inserted; logUpload and triggerWebhook are started
\* without being awaited and the asset is returned.
UploadSaveOk(r) ==
    /\ req[r].pc = "upload_save"
    /\ LET row == NewAsset(nextId, File, req[r].key, req[r].userId,
                           req[r].updates.tags, req[r].updates.description)
       IN  /\ assets' = [assets EXCEPT ![nextId] = row]
           /\ \E saved \in BOOLEAN:
                  req' = [req EXCEPT ![r] =
                      Finish(TriggerWebhook(Log([@ EXCEPT !.asset = row, !.id = nextId],
                                                "upload", saved),
                                            "asset.uploaded"),
                             "Ok")]
    /\ detached' = [detached EXCEPT ![nextId] = StartDispatch(webhookUrls)]
    /\ nextId' = nextId + 1
    /\ UNCHANGED <<users, nextUuid, blobs, publicKeys, webhookUrls, receiver>>

\* ------------------------------------------------------------ retrieve one
\* GET /assets/:id: @Roles('user','admin','viewer'), getAssetById, the two checks.
GetAsset(r, userId, id) ==
    /\ Free(r)
    /\ LET rec == Start("get", userId, id)
           asset == assets[id]
       IN  req' = [req EXCEPT ![r] =
               IF ~RolesGuard({"user", "admin", "viewer"}, rec.role)
               THEN Finish(rec, Denied(rec.role))
               ELSE IF asset = NoRow
               THEN Finish(rec, "NotFound")
               ELSE Finish([rec EXCEPT !.asset = asset],
                           GetAssetVerdict(rec.role, userId, asset))]
    /\ UNCHANGED <<users, assets, nextId, nextUuid, blobs, publicKeys, webhookUrls, detached, receiver>>

\* ---------------------------------------------------------------- listing
\* AssetsService.getSharedAssets: find({ where: { isShared: true } })
GetSharedAssets == {id \in AssetIds : assets[id] # NoRow /\ assets[id].isShared}

\* AssetsService.getUserAssets: find({ where: { uploaderId: userId } })
GetUserAssets(userId) ==
    {id \in AssetIds : assets[id] # NoRow /\ assets[id].uploaderId = userId}

\* GET /assets: a viewer is given the shared assets, a user or an admin the
\* assets they uploaded.
ListAssets(r, userId) ==
    /\ Free(r)
    /\ LET rec == Start("list", userId, 1)
       IN  req' = [req EXCEPT ![r] =
               IF ~RolesGuard({"user", "admin", "viewer"}, rec.role)
               THEN Finish(rec, Denied(rec.role))
               ELSE Finish([rec EXCEPT !.list = IF rec.role = "viewer"
                                                 THEN GetSharedAssets
                                                 ELSE GetUserAssets(userId)],
                           "Ok")]
    /\ UNCHANGED <<users, assets, nextId, nextUuid, blobs, publicKeys, webhookUrls, detached, receiver>>

\* ------------------------------------------------------ public shared fetch
\* A request of the @Public() route: no token, no principal.
StartPublic(op, id) ==
    [Idle EXCEPT !.op = op, !.userId = "anonymous", !.role = "none", !.id = id,
                 !.before = assets[id]]

\* GET /assets/shared/:id: getSharedAsset reads the row, answers 404 with
\* 'Asset not found' or with 'Asset is not shared', and otherwise signs a URL.
GetSharedAsset(r, id) ==
    /\ Free(r)
    /\ LET rec == StartPublic("shared", id)
           asset == assets[id]
       IN  req' = [req EXCEPT ![r] =
               IF asset = NoRow
               THEN Finish([rec EXCEPT !.message = "Asset not found"], "NotFound")
               ELSE IF ~asset.isShared
               THEN Finish([rec EXCEPT !.message = "Asset is not shared"], "NotFound")
               ELSE Finish([rec EXCEPT !.asset = asset,
                                       !.url = SignedUrl(asset.s3Key, 3600)],
                           "Ok")]
    /\ UNCHANGED <<users, assets, nextId, nextUuid, blobs, publicKeys, webhookUrls, detached, receiver>>

\* getSharedAsset: getSignedUrl throws for a shared asset.
GetSharedAssetFail(r, id) ==
    /\ Free(r)
    /\ assets[id] # NoRow /\ assets[id].isShared
    /\ req' = [req EXCEPT ![r] =
           Finish(Throw([StartPublic("shared", id) EXCEPT
                            !.asset = assets[id],
                            !.message = "Failed to generate download URL"], "s3"),
                  "StorageFailure")]
    /\ UNCHANGED <<users, assets, nextId, nextUuid, blobs, publicKeys, webhookUrls, detached, receiver>>

\* ------------------------------------------------------------ download URL
\* GET /assets/:id/download: the guard, then the viewer-only check.
BeginDownload(r, userId, id) ==
    /\ Free(r)
    /\ LET rec == Start("download", userId, id)
           asset == assets[id]
       IN  req' = [req EXCEPT ![r] =
               IF ~RolesGuard({"user", "admin", "viewer"}, rec.role)
               THEN Finish(rec, Denied(rec.role))
               ELSE IF rec.role = "viewer" /\ asset = NoRow
               THEN Finish(rec, "NotFound")
               ELSE IF rec.role = "viewer"
                       /\ DownloadVerdict(rec.role, userId, asset) = "Forbidden"
               THEN Finish([rec EXCEPT !.asset = asset], "Forbidden")
               ELSE [rec EXCEPT !.pc = "download"]]
    /\ UNCHANGED <<users, assets, nextId, nextUuid, blobs, publicKeys, webhookUrls, detached, receiver>>

\* AssetsService.getDownloadUrl: getAssetById finds no row.
DownloadNotFound(r) ==
    /\ req[r].pc = "download"
    /\ assets[req[r].id] = NoRow
    /\ req' = [req EXCEPT ![r] = Finish(@, "NotFound")]
    /\ UNCHANGED <<users, assets, nextId, nextUuid, blobs, publicKeys, webhookUrls, detached, receiver>>

\* AssetsService.getDownloadUrl: getSignedUrl throws.
DownloadFail(r) ==
    /\ req[r].pc = "download"
    /\ assets[req[r].id] # NoRow
    /\ req' = [req EXCEPT ![r] =
           Finish(Throw([@ EXCEPT !.asset = assets[req[r].id]], "s3"), "StorageFailure")]
    /\ UNCHANGED <<users, assets, nextId, nextUuid, blobs, publicKeys, webhookUrls, detached, receiver>>

\* AssetsService.getDownloadUrl: the signed URL is issued, logView is started.
DownloadOk(r) ==
    /\ req[r].pc = "download"
    /\ assets[req[r].id] # NoRow
    /\ LET asset == assets[req[r].id]
       IN  \E saved \in BOOLEAN:
               req' = [req EXCEPT ![r] =
                   Finish(Log([@ EXCEPT !.asset = asset,
                                        !.url = SignedUrl(asset.s3Key, 3600)],
                              "view", saved),
                          "Ok")]
    /\ UNCHANGED <<users, assets, nextId, nextUuid, blobs, publicKeys, webhookUrls, detached, receiver>>

\* --------------------------------------------------------- update metadata
\* PUT /assets/:id: @Roles('user','admin'); updateAsset reads the row, checks
\* ownership and applies the supplied fields to the entity it holds.
BeginUpdate(r, userId, id, updates) ==
    /\ Free(r)
    /\ LET rec == [Start("update", userId, id) EXCEPT !.updates = updates]
           asset == assets[id]
       IN  req' = [req EXCEPT ![r] =
               IF ~RolesGuard({"user", "admin"}, rec.role)
               THEN Finish(rec, Denied(rec.role))
               ELSE IF asset = NoRow
               THEN Finish(rec, "NotFound")
               ELSE IF UpdateVerdict(asset, userId) = "Forbidden"
               THEN Finish([rec EXCEPT !.asset = asset], "Forbidden")
               ELSE [rec EXCEPT !.asset = ApplyUpdates(asset, updates),
                                !.pc = "update_save"]]
    /\ UNCHANGED <<users, assets, nextId, nextUuid, blobs, publicKeys, webhookUrls, detached, receiver>>

\* updateAsset: assetRepository.save throws.
UpdateSaveFail(r) ==
    /\ req[r].pc = "update_save"
    /\ req' = [req EXCEPT ![r] = Finish(Throw(@, "db"), "InternalError")]
    /\ UNCHANGED <<users, assets, nextId, nextUuid, blobs, publicKeys, webhookUrls, detached, receiver>>

\* Mutant: the save of an update clears the shared flag.
UpdateSaveOk_Unshare(r) ==
    /\ req[r].pc = "update_save"
    /\ assets' = [assets EXCEPT ![req[r].id] = [req[r].asset EXCEPT !.isShared = FALSE]]
    /\ req' = [req EXCEPT ![r] = Finish(@, "Ok")]
    /\ UNCHANGED <<users, nextId, nextUuid, blobs, publicKeys, webhookUrls, detached, receiver>>

\* updateAsset: assetRepository.save writes the entity the handler holds.
UpdateSaveOk(r) ==
    /\ req[r].pc = "update_save"
    /\ assets' = [assets EXCEPT ![req[r].id] = req[r].asset]
    /\ req' = [req EXCEPT ![r] = Finish(@, "Ok")]
    /\ UNCHANGED <<users, nextId, nextUuid, blobs, publicKeys, webhookUrls, detached, receiver>>

\* ------------------------------------------------------------------ delete
\* DELETE /assets/:id: @Roles('user','admin'); deleteAsset reads the row and
\* checks ownership (admins may delete any asset).
BeginDelete(r, userId, id) ==
    /\ Free(r)
    /\ LET rec == Start("delete", userId, id)
           asset == assets[id]
       IN  req' = [req EXCEPT ![r] =
               IF ~RolesGuard({"user", "admin"}, rec.role)
               THEN Finish(rec, Denied(rec.role))
               ELSE IF asset = NoRow
               THEN Finish(rec, "NotFound")
               ELSE IF DeleteVerdict(asset, userId, rec.role) = "Forbidden"
               THEN Finish([rec EXCEPT !.asset = asset], "Forbidden")
               ELSE [rec EXCEPT !.asset = asset, !.pc = "delete_s3"]]
    /\ UNCHANGED <<users, assets, nextId, nextUuid, blobs, publicKeys, webhookUrls, detached, receiver>>

\* Mutant: the failure of deleteFile is swallowed and the deletion goes on.
DeleteS3Fail_Swallowed(r) ==
    /\ req[r].pc = "delete_s3"
    /\ req' = [req EXCEPT ![r] = [Throw(@, "s3") EXCEPT !.pc = "delete_row"]]
    /\ UNCHANGED <<users, assets, nextId, nextUuid, blobs, publicKeys, webhookUrls, detached, receiver>>

\* deleteAsset: s3Service.deleteFile throws; control goes to the catch block.
DeleteS3Fail(r) ==
    /\ req[r].pc = "delete_s3"
    /\ req' = [req EXCEPT ![r] = [Throw(@, "s3") EXCEPT !.pc = "delete_catch"]]
    /\ UNCHANGED <<users, assets, nextId, nextUuid, blobs, publicKeys, webhookUrls, detached, receiver>>

\* deleteAsset: s3Service.deleteFile removes the object.
DeleteS3Ok(r) ==
    /\ req[r].pc = "delete_s3"
    /\ blobs' = blobs \ {req[r].asset.s3Key}
    /\ publicKeys' = publicKeys \ {req[r].asset.s3Key}
    /\ req' = [req EXCEPT ![r] = [@ EXCEPT !.s3Deleted = TRUE, !.pc = "delete_row"]]
    /\ UNCHANGED <<users, assets, nextId, nextUuid, webhookUrls, detached, receiver>>

\* deleteAsset: assetRepository.remove throws; control goes to the catch block.
DeleteRowFail(r) ==
    /\ req[r].pc = "delete_row"
    /\ req' = [req EXCEPT ![r] = [Throw(@, "db") EXCEPT !.pc = "delete_catch"]]
    /\ UNCHANGED <<users, assets, nextId, nextUuid, blobs, publicKeys, webhookUrls, detached, receiver>>

\* deleteAsset: assetRepository.remove deletes the row.
DeleteRowOk(r) ==
    /\ req[r].pc = "delete_row"
    /\ assets' = [assets EXCEPT ![req[r].id] = NoRow]
    /\ req' = [req EXCEPT ![r] = [@ EXCEPT !.pc = "delete_log"]]
    /\ UNCHANGED <<users, nextId, nextUuid, blobs, publicKeys, webhookUrls, detached, receiver>>

\* deleteAsset: await loggerService.logDelete.
DeleteLog(r) ==
    /\ req[r].pc = "delete_log"
    /\ \E saved \in BOOLEAN:
           req' = [req EXCEPT ![r] = [Log(@, "delete", saved) EXCEPT !.pc = "delete_hook"]]
    /\ UNCHANGED <<users, assets, nextId, nextUuid, blobs, publicKeys, webhookUrls, detached, receiver>>

\* deleteAsset: webhookService.triggerWebhook('asset.deleted') is called and
\* awaited.
DeleteHook(r) ==
    /\ req[r].pc = "delete_hook"
    /\ req' = [req EXCEPT ![r] =
           [TriggerWebhook(@, "asset.deleted") EXCEPT
               !.hook = StartDispatch(webhookUrls), !.pc = "delete_await"]]
    /\ UNCHANGED <<users, assets, nextId, nextUuid, blobs, publicKeys, webhookUrls, detached, receiver>>

\* Mutant: the call fails when a destination was given up.
DeleteReturn_HookFails(r) ==
    /\ req[r].pc = "delete_await"
    /\ Settled(req[r].hook)
    /\ req' = [req EXCEPT ![r] =
           Finish(@, IF \E u \in Urls: req[r].hook[u].pc = "gaveup"
                     THEN "InternalError" ELSE "Ok")]
    /\ UNCHANGED <<users, assets, nextId, nextUuid, blobs, publicKeys, webhookUrls, detached, receiver>>

\* deleteAsset: the awaited triggerWebhook has resolved; the method returns.
DeleteReturn(r) ==
    /\ req[r].pc = "delete_await"
    /\ Settled(req[r].hook)
    /\ req' = [req EXCEPT ![r] = Finish(@, "Ok")]
    /\ UNCHANGED <<users, assets, nextId, nextUuid, blobs, publicKeys, webhookUrls, detached, receiver>>

\* deleteAsset: the catch block awaits logError('failed_delete') and rethrows.
DeleteCatch(r) ==
    /\ req[r].pc = "delete_catch"
    /\ \E saved \in BOOLEAN:
           req' = [req EXCEPT ![r] =
               Finish(Log([@ EXCEPT !.message = ErrorMessage("delete", req[r].error)],
                          "failed_delete", saved),
                      IF @.error = "s3" THEN "StorageFailure" ELSE "InternalError")]
    /\ UNCHANGED <<users, assets, nextId, nextUuid, blobs, publicKeys, webhookUrls, detached, receiver>>

\* ------------------------------------------------------------------- share
\* POST /assets/:id/share: @Roles('user','admin'); shareAsset reads the row and
\* checks ownership.
BeginShare(r, userId, id) ==
    /\ Free(r)
    /\ LET rec == Start("share", userId, id)
           asset == assets[id]
       IN  req' = [req EXCEPT ![r] =
               IF ~RolesGuard({"user", "admin"}, rec.role)
               THEN Finish(rec, Denied(rec.role))
               ELSE IF asset = NoRow
               THEN Finish(rec, "NotFound")
               ELSE IF ShareVerdict(asset, userId) = "Forbidden"
               THEN Finish([rec EXCEPT !.asset = asset], "Forbidden")
               ELSE [rec EXCEPT !.asset = asset, !.pc = "share_s3"]]
    /\ UNCHANGED <<users, assets, nextId, nextUuid, blobs, publicKeys, webhookUrls, detached, receiver>>

\* shareAsset: s3Service.makePublic throws.
ShareS3Fail(r) ==
    /\ req[r].pc = "share_s3"
    /\ req' = [req EXCEPT ![r] =
           Finish([Throw(@, "s3") EXCEPT !.message = ErrorMessage("share", "s3")],
                  "StorageFailure")]
    /\ UNCHANGED <<users, assets, nextId, nextUuid, blobs, publicKeys, webhookUrls, detached, receiver>>

\* shareAsset: s3Service.makePublic sets the object's ACL to public-read and
\* returns its permanent URL.
ShareS3Ok(r) ==
    /\ req[r].pc = "share_s3"
    /\ req[r].asset.s3Key \in blobs
    /\ publicKeys' = publicKeys \cup {req[r].asset.s3Key}
    /\ req' = [req EXCEPT ![r] = [@ EXCEPT !.url = PublicUrl(req[r].asset.s3Key),
                                           !.pc = "share_save"]]
    /\ UNCHANGED <<users, assets, nextId, nextUuid, blobs, webhookUrls, detached, receiver>>

\* shareAsset: assetRepository.save throws; nothing catches the error.
ShareSaveFail(r) ==
    /\ req[r].pc = "share_save"
    /\ req' = [req EXCEPT ![r] =
           Finish([Throw(@, "db") EXCEPT !.message = ErrorMessage("share", "db")],
                  "InternalError")]
    /\ UNCHANGED <<users, assets, nextId, nextUuid, blobs, publicKeys, webhookUrls, detached, receiver>>

\* shareAsset: the entity is marked shared and saved.
ShareSaveOk(r) ==
    /\ req[r].pc = "share_save"
    /\ LET row == MarkShared(req[r].asset, req[r].url)
       IN  /\ assets' = [assets EXCEPT ![req[r].id] = row]
           /\ req' = [req EXCEPT ![r] = [@ EXCEPT !.asset = row, !.pc = "share_log"]]
    /\ UNCHANGED <<users, nextId, nextUuid, blobs, publicKeys, webhookUrls, detached, receiver>>

\* shareAsset: await loggerService.logShare.
ShareLog(r) ==
    /\ req[r].pc = "share_log"
    /\ \E saved \in BOOLEAN:
           req' = [req EXCEPT ![r] = [Log(@, "share", saved) EXCEPT !.pc = "share_hook"]]
    /\ UNCHANGED <<users, assets, nextId, nextUuid, blobs, publicKeys, webhookUrls, detached, receiver>>

\* shareAsset: webhookService.triggerWebhook('asset.shared') is called and
\* awaited.
ShareHook(r) ==
    /\ req[r].pc = "share_hook"
    /\ req' = [req EXCEPT ![r] =
           [TriggerWebhook(@, "asset.shared") EXCEPT
               !.hook = StartDispatch(webhookUrls), !.pc = "share_await"]]
    /\ UNCHANGED <<users, assets, nextId, nextUuid, blobs, publicKeys, webhookUrls, detached, receiver>>

\* shareAsset: the awaited triggerWebhook has resolved; the asset is returned.
ShareReturn(r) ==
    /\ req[r].pc = "share_await"
    /\ Settled(req[r].hook)
    /\ req' = [req EXCEPT ![r] = Finish(@, "Ok")]
    /\ UNCHANGED <<users, assets, nextId, nextUuid, blobs, publicKeys, webhookUrls, detached, receiver>>

\* ---------------------------------------------------------------- dispatch
\* sendWithRetry of a dispatch a handler awaits: the POST in flight to url ends.
AwaitedAttempt(r, url, outcome) ==
    /\ req[r].pc \in {"delete_await", "share_await"}
    /\ req[r].hook[url].pc = "post"
    /\ req' = [req EXCEPT ![r].hook[url] = Attempt(@, outcome)]
    /\ UNCHANGED <<users, assets, nextId, nextUuid, blobs, publicKeys, webhookUrls, detached, receiver>>

\* sendWithRetry of a dispatch a handler awaits: the backoff to url is over.
AwaitedWake(r, url) ==
    /\ req[r].pc \in {"delete_await", "share_await"}
    /\ req[r].hook[url].pc = "sleep"
    /\ req' = [req EXCEPT ![r].hook[url] = Wake(@)]
    /\ UNCHANGED <<users, assets, nextId, nextUuid, blobs, publicKeys, webhookUrls, detached, receiver>>

\* sendWithRetry of a dispatch nobody awaits: the POST in flight to url ends.
DetachedAttempt(id, url, outcome) ==
    /\ detached[id][url].pc = "post"
    /\ detached' = [detached EXCEPT ![id][url] = Attempt(@, outcome)]
    /\ UNCHANGED <<users, assets, nextId, nextUuid, blobs, publicKeys, req, webhookUrls, receiver>>

\* sendWithRetry of a dispatch nobody awaits: the backoff to url is over.
DetachedWake(id, url) ==
    /\ detached[id][url].pc = "sleep"
    /\ detached' = [detached EXCEPT ![id][url] = Wake(@)]
    /\ UNCHANGED <<users, assets, nextId, nextUuid, blobs, publicKeys, req, webhookUrls, receiver>>

\* triggerWebhook of a dispatch nobody awaits: Promise.allSettled resolves,
\* the method returns and its promise is dropped.
DetachedSettle(id) ==
    /\ detached[id] # NoDispatch
    /\ Settled(detached[id])
    /\ detached' = [detached EXCEPT ![id] = NoDispatch]
    /\ UNCHANGED <<users, assets, nextId, nextUuid, blobs, publicKeys, req, webhookUrls, receiver>>

\* WebhookService.addWebhookUrl
AddWebhookUrl(url) ==
    /\ webhookUrls' = IF InList(url, webhookUrls) THEN webhookUrls
                      ELSE Append(webhookUrls, url)
    /\ UNCHANGED <<users, assets, nextId, nextUuid, blobs, publicKeys, req, detached, receiver>>

\* WebhookService.removeWebhookUrl
RemoveWebhookUrl(url) ==
    /\ webhookUrls' = SelectSeq(webhookUrls, LAMBDA u: u # url)
    /\ UNCHANGED <<users, assets, nextId, nextUuid, blobs, publicKeys, req, detached, receiver>>

\* WebhookService.triggerWebhook called on its own for an event of asset id.
TriggerWebhookCall(id) ==
    /\ detached[id] = NoDispatch
    /\ detached' = [detached EXCEPT ![id] = StartDispatch(webhookUrls)]
    /\ UNCHANGED <<users, assets, nextId, nextUuid, blobs, publicKeys, req, webhookUrls, receiver>>

\* -------------------------------------------------------------------- users
\* PUT /users/:id/role: @Roles('admin'); updateUserRole validates the role name
\* and saves the user.
UpdateUserRole(r, adminId, userId, roleName) ==
    /\ Free(r)
    /\ LET rec == [Start("role", adminId, 1) EXCEPT !.target = userId]
       IN  IF ~RolesGuard({"admin"}, rec.role)
           THEN /\ req' = [req EXCEPT ![r] = Finish(rec, Denied(rec.role))]
                /\ UNCHANGED users
           ELSE IF users[userId] = NoUser
           THEN /\ req' = [req EXCEPT ![r] = Finish(rec, "NotFound")]
                /\ UNCHANGED users
           ELSE IF roleName \notin {"admin", "user", "viewer"}
           THEN /\ req' = [req EXCEPT ![r] = Finish(rec, "InvalidInput")]
                /\ UNCHANGED users
           ELSE /\ req' = [req EXCEPT ![r] = Finish(rec, "Ok")]
                /\ users' = [users EXCEPT ![userId] = roleName]
    /\ UNCHANGED <<assets, nextId, nextUuid, blobs, publicKeys, webhookUrls, detached, receiver>>

\* DELETE /users/:id: @Roles('admin'); deleteUser reads the user and finds the
\* assets the user uploaded.
BeginDeleteUser(r, adminId, userId) ==
    /\ Free(r)
    /\ LET rec == [Start("deleteUser", adminId, 1) EXCEPT !.target = userId]
       IN  req' = [req EXCEPT ![r] =
               IF ~RolesGuard({"admin"}, rec.role)
               THEN Finish(rec, Denied(rec.role))
               ELSE IF users[userId] = NoUser
               THEN Finish(rec, "NotFound")
               ELSE [rec EXCEPT !.list = GetUserAssets(userId), !.pc = "cascade"]]
    /\ UNCHANGED <<users, assets, nextId, nextUuid, blobs, publicKeys, webhookUrls, detached, receiver>>

\* deleteUser, one asset of the loop: s3Service.deleteFile throws; the error is
\* printed and the loop goes on with the next asset.
CascadeS3Fail(r, id) ==
    /\ req[r].pc = "cascade"
    /\ id \in req[r].list
    /\ req' = [req EXCEPT ![r] = [@ EXCEPT !.list = @ \ {id}, !.failed = @ \cup {id}]]
    /\ UNCHANGED <<users, assets, nextId, nextUuid, blobs, publicKeys, webhookUrls, detached, receiver>>

\* deleteUser, one asset of the loop: s3Service.deleteFile removes the object.
CascadeS3Ok(r, id) ==
    /\ req[r].pc = "cascade"
    /\ id \in req[r].list
    /\ assets[id] # NoRow
    /\ blobs' = blobs \ {assets[id].s3Key}
    /\ publicKeys' = publicKeys \ {assets[id].s3Key}
    /\ req' = [req EXCEPT ![r] = [@ EXCEPT !.id = id, !.pc = "cascade_row"]]
    /\ UNCHANGED <<users, assets, nextId, nextUuid, webhookUrls, detached, receiver>>

\* deleteUser, one asset of the loop: assetRepository.remove throws; the error
\* is printed and the loop goes on with the next asset.
CascadeRowFail(r) ==
    /\ req[r].pc = "cascade_row"
    /\ req' = [req EXCEPT ![r] = [@ EXCEPT !.list = @ \ {req[r].id},
                                           !.failed = @ \cup {req[r].id},
                                           !.pc = "cascade"]]
    /\ UNCHANGED <<users, assets, nextId, nextUuid, blobs, publicKeys, webhookUrls, detached, receiver>>

\* deleteUser, one asset of the loop: assetRepository.remove deletes the row.
CascadeRowOk(r) ==
    /\ req[r].pc = "cascade_row"
    /\ assets' = [assets EXCEPT ![req[r].id] = NoRow]
    /\ req' = [req EXCEPT ![r] = [@ EXCEPT !.list = @ \ {req[r].id}, !.pc = "cascade"]]
    /\ UNCHANGED <<users, nextId, nextUuid, blobs, publicKeys, webhookUrls, detached, receiver>>

\* deleteUser, after the loop: userRepository.remove(user).  assets.uploaderId
\* is a foreign key to users without ON DELETE, so the removal throws while a
\* row of the user is left.
CascadeUser(r) ==
    /\ req[r].pc = "cascade"
    /\ req[r].list = {}
    /\ IF GetUserAssets(req[r].target) # {}
       THEN /\ req' = [req EXCEPT ![r] = Finish(Throw(@, "db"), "InternalError")]
            /\ UNCHANGED users
       ELSE /\ users' = [users EXCEPT ![req[r].target] = NoUser]
            /\ req' = [req EXCEPT ![r] = Finish(@, "Ok")]
    /\ UNCHANGED <<assets, nextId, nextUuid, blobs, publicKeys, webhookUrls, detached, receiver>>

\* ----------------------------------------------------------------- receiver
\* Time passes.
Tick(t) ==
    /\ t > receiver.now
    /\ receiver' = [receiver EXCEPT !.now = t]
    /\ UNCHANGED <<users, assets, nextId, nextUuid, blobs, publicKeys, req, webhookUrls, detached>>

\* triggerWebhook builds the payload with timestamp Date.now(); sendWithRetry
\* posts its JSON text with the signature of the text and the timestamp as
\* X-Webhook-Signature and X-Webhook-Timestamp.
Post(event, data) ==
    /\ LET payload == [event |-> event, timestamp |-> receiver.now, data |-> data]
           payloadString == JsonStringify(payload)
       IN  receiver' = [receiver EXCEPT !.wire = @ \cup
               {[payload |-> payloadString,
                 signature |-> SignPayload(payloadString),
                 timestamp |-> NumberToString(payload.timestamp)]}]
    /\ UNCHANGED <<users, assets, nextId, nextUuid, blobs, publicKeys, req, webhookUrls, detached>>

\* The receiver calls verifySignature(payload, signature, timestamp).
Verify(payload, signature, timestamp) ==
    /\ receiver' = [receiver EXCEPT !.call =
           [made |-> TRUE, payload |-> payload, signature |-> signature,
            timestamp |-> timestamp, now |-> receiver.now,
            result |-> VerifySignature(payload, signature, timestamp, receiver.now)]]
    /\ UNCHANGED <<users, assets, nextId, nextUuid, blobs, publicKeys, req, webhookUrls, detached>>

\* ------------------------------------------------------------ specification
UpdateInputs == [tags : {Undefined} \cup TextVals, description : {Undefined} \cup TextVals]

\* An upload request arrives in slot r.
Uploading(r) ==
    \E u \in Users, hasFile \in BOOLEAN: BeginUpload(r, u, hasFile, "t1", Undefined)

\* Every other step a request in slot r can take.
Serving(r) ==
    \/ UploadS3Fail(r)
    \/ UploadS3Ok(r)
    \/ UploadSaveFail(r)
    \/ UploadSaveOk(r)
    \/ \E u \in Users, id \in AssetIds: GetAsset(r, u, id)
    \/ \E u \in Users: ListAssets(r, u)
    \/ \E id \in AssetIds: GetSharedAsset(r, id)
    \/ \E id \in AssetIds: GetSharedAssetFail(r, id)
    \/ \E u \in Users, id \in AssetIds: BeginDownload(r, u, id)
    \/ DownloadNotFound(r)
    \/ DownloadFail(r)
    \/ DownloadOk(r)
    \/ \E u \in Users, id \in AssetIds, updates \in UpdateInputs:
            BeginUpdate(r, u, id, updates)
    \/ UpdateSaveFail(r)
    \/ UpdateSaveOk(r)
    \/ \E u \in Users, id \in AssetIds: BeginDelete(r, u, id)
    \/ DeleteS3Fail(r)
    \/ DeleteS3Ok(r)
    \/ DeleteRowFail(r)
    \/ DeleteRowOk(r)
    \/ DeleteLog(r)
    \/ DeleteHook(r)
    \/ DeleteReturn(r)
    \/ DeleteCatch(r)
    \/ \E u \in Users, id \in AssetIds: BeginShare(r, u, id)
    \/ ShareS3Fail(r)
    \/ ShareS3Ok(r)
    \/ ShareSaveFail(r)
    \/ ShareSaveOk(r)
    \/ ShareLog(r)
    \/ ShareHook(r)
    \/ ShareReturn(r)
    \/ \E url \in Urls, outcome \in Outcomes: AwaitedAttempt(r, url, outcome)
    \/ \E url \in Urls: AwaitedWake(r, url)
    \/ \E a \in Users: \E u \in Users \ {a}, roleName \in Roles \cup {"guest"}:
            UpdateUserRole(r, a, u, roleName)

\* Every step a request in slot r can take.
Handler(r) == Uploading(r) \/ Serving(r)

\* The steps of the dispatches nobody awaits.
Dispatcher ==
    \/ \E id \in AssetIds, url \in Urls, outcome \in Outcomes:
            DetachedAttempt(id, url, outcome)
    \/ \E id \in AssetIds, url \in Urls: DetachedWake(id, url)
    \/ \E id \in AssetIds: DetachedSettle(id)

\* One request at a time, one destination that can be registered: the
\* contract of each call.
Next ==
    \/ nextUuid <= SeqUploads /\ Uploading("r1")
    \/ Serving("r1")
    \/ Dispatcher
    \/ AddWebhookUrl("d1")

Spec == Init /\ [][Next]_vars

\* Requests served concurrently: the steps of the handlers interleave.
NextConc ==
    \/ \E r \in Slots: nextUuid <= SeqUploads /\ Uploading(r)
    \/ \E r \in Slots: Serving(r)
    \/ Dispatcher
    \/ AddWebhookUrl("d1")

SpecConc == Init /\ [][NextConc]_vars

\* The steps of an upload after its arrival.
UploadSteps(r) ==
    \/ UploadS3Fail(r)
    \/ UploadS3Ok(r)
    \/ UploadSaveFail(r)
    \/ UploadSaveOk(r)

\* Uploads that have not reached the object store yet.
UploadsInFlight == Cardinality({r \in Slots : req[r].pc = "upload_s3"})

\* Uploads served concurrently, of the same file name, by either principal.
NextUpload ==
    \/ \E r \in Slots: nextUuid + UploadsInFlight <= MaxUploads /\ Uploading(r)
    \/ \E r \in Slots: UploadSteps(r)

SpecUpload == Init /\ [][NextUpload]_vars

\* The steps of deleteUser after its arrival.
CascadeSteps(r) ==
    \/ \E id \in AssetIds: CascadeS3Fail(r, id)
    \/ \E id \in AssetIds: CascadeS3Ok(r, id)
    \/ CascadeRowFail(r)
    \/ CascadeRowOk(r)
    \/ CascadeUser(r)

\* The administration of principals, one request at a time: uploads, role
\* changes, the deletion of a user with the assets the user uploaded, and
\* requests made with the tokens issued at login.
NextUsers ==
    \/ Uploading("r1")
    \/ UploadSteps("r1")
    \/ \E u \in Users, id \in AssetIds: GetAsset("r1", u, id)
    \/ \E a \in Users: \E u \in Users \ {a}, roleName \in Roles \cup {"guest"}:
            UpdateUserRole("r1", a, u, roleName)
    \/ \E a \in Users: \E u \in Users \ {a}: BeginDeleteUser("r1", a, u)
    \/ CascadeSteps("r1")

SpecUsers == Init /\ [][NextUsers]_vars

\* The update every updateAsset call of the race supplies.
RaceUpdates == {[tags |-> "t2", description |-> Undefined]}

\* The steps of updateAsset, deleteAsset and shareAsset in slot r, on the
\* assets uploaded.
MutationSteps(r) ==
    \/ \E u \in Users, id \in 1..SeqUploads, updates \in RaceUpdates:
            BeginUpdate(r, u, id, updates)
    \/ UpdateSaveFail(r)
    \/ UpdateSaveOk(r)
    \/ \E u \in Users, id \in 1..SeqUploads: BeginDelete(r, u, id)
    \/ DeleteS3Fail(r)
    \/ DeleteS3Ok(r)
    \/ DeleteRowFail(r)
    \/ DeleteRowOk(r)
    \/ DeleteLog(r)
    \/ DeleteHook(r)
    \/ DeleteReturn(r)
    \/ DeleteCatch(r)
    \/ \E u \in Users, id \in 1..SeqUploads: BeginShare(r, u, id)
    \/ ShareS3Fail(r)
    \/ ShareS3Ok(r)
    \/ ShareSaveFail(r)
    \/ ShareSaveOk(r)
    \/ ShareLog(r)
    \/ ShareHook(r)
    \/ ShareReturn(r)

\* Updates, deletions and shares served concurrently in the two slots, on the
\* assets uploaded before; no destination is registered.
NextRace ==
    \/ nextUuid <= SeqUploads /\ BeginUpload("r1", "u2", TRUE, "t1", Undefined)
    \/ UploadSteps("r1")
    \/ \E r \in Slots: MutationSteps(r)

SpecRace == Init /\ [][NextRace]_vars

\* What a party on the network can hand to the receiver: the texts,
\* signatures and timestamps of the deliveries seen, a text with other data,
\* a signature under another key or cut short, the current time, and
\* timestamps that are no numbers.
Tamper(text) == <<text[1], text[2], text[3], "tampered">>
CutShort(signature) == [signature EXCEPT !.length = 32]
PayloadInputs ==
    {d.payload : d \in receiver.wire} \cup {Tamper(d.payload) : d \in receiver.wire}
SignatureInputs ==
    {d.signature : d \in receiver.wire}
        \cup {CutShort(d.signature) : d \in receiver.wire}
        \cup {Hmac(OtherSecret, d.payload) : d \in receiver.wire}
TimestampInputs ==
    {d.timestamp : d \in receiver.wire}
        \cup {NumberToString(receiver.now), <<>>, <<"a", "b", "c">>}

\* Signed deliveries and their verification by a receiver, over time.
NextVerify ==
    \/ \E t \in Clock: Tick(t)
    \/ Post("asset.uploaded", "d1")
    \/ \E payload \in PayloadInputs, signature \in SignatureInputs,
          timestamp \in TimestampInputs: Verify(payload, signature, timestamp)

SpecVerify == Init /\ [][NextVerify]_vars

\* The notification dispatcher on its own: destinations are registered and
\* removed, triggerWebhook is called, the retry loops run side by side.
NextHook ==
    \/ \E url \in Urls: AddWebhookUrl(url)
    \/ \E url \in Urls: RemoveWebhookUrl(url)
    \/ \E id \in 1..SeqUploads: TriggerWebhookCall(id)
    \/ Dispatcher

SpecHook == Init /\ [][NextHook]_vars

\* Every POST in flight ends (a response, an error or the 10 s timeout) and
\* every backoff timer fires.
HookFairness ==
    \A id \in AssetIds, url \in Urls:
        /\ WF_vars(\E outcome \in Outcomes: DetachedAttempt(id, url, outcome))
        /\ WF_vars(DetachedWake(id, url))

SpecHookFair == SpecHook /\ HookFairness

\* ------------------------------------------------------------------ claims
Done(r, op) == req[r].pc = "done" /\ req[r].op = op

\* The caller of request r owns the asset the request addresses.
Owner(r) == req[r].before.uploaderId = req[r].userId

\* C1: in a deleteAsset call where deleteFile fails, the row is still there,
\* unchanged, when the call ends and the caller receives a failure; and a row
\* removed by deleteAsset had its object deleted successfully before.
C1_DeleteBlobFirst ==
    \A r \in Slots:
        /\ (Done(r, "delete") /\ req[r].error = "s3") =>
               /\ assets[req[r].id] = req[r].before
               /\ req[r].before # NoRow
               /\ req[r].result = "StorageFailure"
        /\ (req[r].op = "delete" /\ req[r].before # NoRow /\ assets[req[r].id] = NoRow) =>
               /\ req[r].s3Deleted
               /\ req[r].before.s3Key \notin blobs

C1_Witness ==
    \E r \in Slots:
        Done(r, "delete") /\ req[r].error = "s3" /\ assets[req[r].id] # NoRow

\* C2: every metadata row refers to an object the store still holds.
C2_RowHasBlob ==
    \A id \in AssetIds: assets[id] # NoRow => assets[id].s3Key \in blobs

\* C3: an upload whose save failed after the object was written leaves no
\* object of that upload in the store.
C3_CompensatingDelete ==
    \A r \in Slots:
        (Done(r, "upload") /\ req[r].s3Uploaded /\ req[r].error = "db") =>
            req[r].key \notin blobs

\* C4: an upload whose object-store step failed leaves no row, has submitted a
\* failed_upload activity, no upload activity and no asset.uploaded
\* notification, and ends in failure.
C4_UploadBlobFailure ==
    \A r \in Slots:
        (Done(r, "upload") /\ req[r].error = "s3") =>
            /\ req[r].result = "StorageFailure"
            /\ "failed_upload" \in req[r].activity
            /\ "upload" \notin req[r].activity
            /\ "asset.uploaded" \notin req[r].events
            /\ nextId = req[r].id
            /\ assets[req[r].id] = NoRow
            /\ \A id \in AssetIds: assets[id] # NoRow => assets[id].s3Key # req[r].key

C4_Witness ==
    \E r \in Slots:
        Done(r, "upload") /\ req[r].error = "s3" /\ "failed_upload" \in req[r].activity

\* C5 as stated: retrieve-one answers NotFound for an id without a row, and for
\* an existing asset succeeds exactly when the caller is admin, or the owner, or
\* the asset is shared, and answers Forbidden otherwise.
C5_RetrieveOneAsStated ==
    \A r \in Slots:
        Done(r, "get") =>
            IF req[r].before = NoRow
            THEN req[r].result = "NotFound"
            ELSE req[r].result =
                    IF req[r].role = "admin" \/ Owner(r) \/ req[r].before.isShared
                    THEN "Ok" ELSE "Forbidden"

\* C5 amended: retrieve-one answers NotFound for an id without a row, and for an
\* existing asset succeeds exactly when the asset is shared, or the caller is
\* admin, or the caller is the owner and not a viewer; Forbidden otherwise.
C5_RetrieveOne ==
    \A r \in Slots:
        Done(r, "get") =>
            IF req[r].before = NoRow
            THEN req[r].result = "NotFound"
            ELSE req[r].result =
                    IF \/ req[r].before.isShared
                       \/ req[r].role = "admin"
                       \/ (Owner(r) /\ req[r].role # "viewer")
                    THEN "Ok" ELSE "Forbidden"

C5_Witness ==
    \E r \in Slots:
        /\ Done(r, "get") /\ req[r].before # NoRow
        /\ req[r].role = "viewer" /\ Owner(r) /\ ~req[r].before.isShared
        /\ req[r].result = "Forbidden"

\* C6: a caller who is neither admin nor the owner and asks for the download
\* URL of a non-shared asset receives Forbidden, no URL and no view activity.
C6_UrlNeedsAuthorization ==
    \A r \in Slots:
        (/\ Done(r, "download") /\ req[r].before # NoRow
         /\ req[r].role # "admin" /\ ~Owner(r) /\ ~req[r].before.isShared) =>
            /\ req[r].result = "Forbidden"
            /\ req[r].url = NoUrl
            /\ "view" \notin req[r].activity

\* What a finished delete leaves when it was refused, and when an admin
\* deleted another user's asset.
DeleteEffects(r) ==
    /\ req[r].result = "Forbidden" =>
           /\ ~req[r].s3Deleted /\ req[r].error = "none"
           /\ assets[req[r].id] = req[r].before
    /\ (req[r].role = "admin" /\ ~Owner(r) /\ req[r].result = "Ok") =>
           /\ assets[req[r].id] = NoRow
           /\ req[r].before.s3Key \notin blobs

\* C7 as stated: a delete of an existing asset is refused exactly when the caller
\* is neither the owner nor admin; a refused delete calls no object store and
\* leaves the row; an admin's delete of another user's asset removes both.
C7_DeleteAsStated ==
    \A r \in Slots:
        (Done(r, "delete") /\ req[r].before # NoRow) =>
            /\ req[r].result = "Forbidden" <=> ~(Owner(r) \/ req[r].role = "admin")
            /\ DeleteEffects(r)

\* C7 amended: a delete of an existing asset is refused exactly when the caller
\* is neither admin nor an owner with role user (a viewer is refused even for an
\* asset the viewer owns); a refused delete calls no object store and leaves the
\* row; an admin's delete of another user's asset removes both.
C7_Delete ==
    \A r \in Slots:
        (Done(r, "delete") /\ req[r].before # NoRow) =>
            /\ req[r].result = "Forbidden" <=>
                   ~(req[r].role = "admin" \/ (Owner(r) /\ req[r].role = "user"))
            /\ DeleteEffects(r)

C7_Witness ==
    \E r \in Slots:
        /\ Done(r, "delete") /\ req[r].before # NoRow
        /\ req[r].role = "admin" /\ ~Owner(r)
        /\ req[r].result = "Ok" /\ assets[req[r].id] = NoRow

\* A step in which request r ends.
Ends(r, op) == req'[r] # req[r] /\ req'[r].op = op /\ req'[r].pc = "done"

C8_State ==
    \A r \in Slots:
        /\ (Done(r, "share") /\ req[r].before # NoRow /\ ~Owner(r)) =>
               /\ req[r].result = "Forbidden"
               /\ req[r].url = NoUrl /\ req[r].error = "none"
               /\ assets[req[r].id] = req[r].before
        /\ (Done(r, "share") /\ req[r].result = "Ok") =>
               /\ Owner(r)
               /\ assets[req[r].id] # NoRow
               /\ assets[req[r].id].isShared
               /\ assets[req[r].id].sharedUrl # NoUrl
        /\ (Done(r, "get") /\ req[r].before # NoRow /\ req[r].before.isShared) =>
               req[r].result = "Ok"

C8_Step ==
    /\ \A r \in Slots:
           (Ends(r, "share") /\ req'[r].result = "Forbidden") =>
               UNCHANGED <<assets, blobs, publicKeys>>
    /\ \A id \in AssetIds:
           (assets[id] # NoRow /\ assets[id].isShared /\ assets'[id] # NoRow) =>
               assets'[id].isShared

\* C8: a share by a caller who is not the owner (an admin included) is refused
\* and changes neither the object's access level nor the row; a share that
\* succeeds leaves isShared true and a non-null sharedUrl; a shared asset stays
\* shared while it exists and retrieve-one then succeeds for every caller.
C8_ShareOwnerOnly == []C8_State /\ [][C8_Step]_vars

C8_Witness ==
    \E r \in Slots:
        /\ Done(r, "get") /\ req[r].before # NoRow /\ req[r].before.isShared
        /\ ~Owner(r) /\ req[r].role = "user" /\ req[r].result = "Ok"

C9_Step ==
    \A r \in Slots:
        /\ (/\ Ends(r, "update") /\ assets[req'[r].id] # NoRow
            /\ assets[req'[r].id].uploaderId # req'[r].userId) =>
               /\ req'[r].result = "Forbidden"
               /\ UNCHANGED <<assets, blobs, publicKeys>>
        /\ (req[r].op = "update" /\ ~Free(r) /\ assets' # assets) =>
               assets[req[r].id].uploaderId = req[r].userId

\* C9: an update by a caller who is not the owner (an admin included) is
\* refused and leaves the row unchanged; only the owner's update changes it.
C9_UpdateOwnerOnly == [][C9_Step]_vars

C9_Witness ==
    \E r \in Slots:
        /\ Done(r, "update") /\ req[r].before # NoRow
        /\ req[r].role = "admin" /\ ~Owner(r) /\ req[r].result = "Forbidden"
        /\ req[r].updates.tags # Undefined

C10_Step ==
    \A r \in Slots:
        (Ends(r, "update") /\ req'[r].result = "Ok") =>
            LET id == req[r].id
                old == assets[id]
                new == assets'[id]
                upd == req[r].updates
            IN  /\ old # NoRow /\ new # NoRow
                /\ new.tags = IF upd.tags # Undefined THEN upd.tags ELSE old.tags
                /\ new.description =
                       IF upd.description # Undefined THEN upd.description
                       ELSE old.description
                /\ new.id = old.id /\ new.s3Key = old.s3Key
                /\ new.uploaderId = old.uploaderId /\ new.filename = old.filename
                /\ new.size = old.size /\ new.assetType = old.assetType
                /\ new.isShared = old.isShared /\ new.sharedUrl = old.sharedUrl
                /\ \A j \in AssetIds \ {id}: assets'[j] = assets[j]
                /\ UNCHANGED <<blobs, publicKeys>>

\* C10: a successful update sets exactly the supplied fields among tags and
\* description; every other field of the row, every other row and the objects
\* in the store are the same after it.
C10_UpdateFrame == [][C10_Step]_vars

C10_Witness ==
    \E r \in Slots:
        /\ Done(r, "update") /\ req[r].result = "Ok"
        /\ req[r].updates.tags = Undefined /\ req[r].updates.description # Undefined
        /\ assets[req[r].id].tags = "t1"
        /\ assets[req[r].id].description = req[r].updates.description
        /\ assets[req[r].id].isShared

\* What the caller of a finished request observes.
Response(r) == <<req[r].result, req[r].message, req[r].asset, req[r].url>>

\* A signed URL that makes the browser download the object under a filename.
ForcesDownload(url, filename) == Len(url) = 4 /\ url[4] = filename

\* C11: the public shared fetch of an existing asset that is not shared answers
\* NotFound; of a shared asset it returns the asset with a forced-download
\* signed URL, whoever asks; and a shared asset is in the list of shared assets.
C11_SharedFetch ==
    \A r \in Slots:
        /\ (Done(r, "shared") /\ req[r].before # NoRow /\ ~req[r].before.isShared) =>
               req[r].result = "NotFound"
        /\ (Done(r, "shared") /\ req[r].before # NoRow /\ req[r].before.isShared
                /\ req[r].error = "none") =>
               /\ req[r].result = "Ok"
               /\ req[r].asset = req[r].before
               /\ ForcesDownload(req[r].url, req[r].before.filename)
        /\ (Done(r, "list") /\ req[r].role = "viewer") =>
               \A id \in AssetIds:
                   (assets[id] # NoRow /\ assets[id].isShared) => id \in req[r].list

\* C12: the public shared fetch answers the id of an existing asset that is not
\* shared exactly as it answers an id that matches no asset.
C12_NoExistenceLeak ==
    \A r \in Slots:
        (Done(r, "shared") /\ (req[r].before = NoRow \/ ~req[r].before.isShared)) =>
            Response(r) = <<"NotFound", "Asset not found", NoRow, NoUrl>>

\* The operations the access table denies to a viewer.
ViewerDeniedOps == {"upload", "update", "delete", "share"}

C13_State ==
    \A r \in Slots:
        (req[r].role = "viewer" /\ req[r].op \in ViewerDeniedOps) =>
            /\ req[r].pc = "done" /\ req[r].result = "Forbidden"
            /\ ~req[r].s3Uploaded /\ ~req[r].s3Deleted
            /\ req[r].activity = {} /\ req[r].events = {}

C13_Step ==
    \A r \in Slots:
        (req'[r] # req[r] /\ req'[r].role = "viewer" /\ req'[r].op \in ViewerDeniedOps) =>
            UNCHANGED <<assets, nextId, nextUuid, blobs, publicKeys>>

\* C13: an upload, update, delete or share by a caller whose role is viewer is
\* refused, also for an asset the caller owns, and the refused call changes no
\* object and no row.
C13_ViewerDenied == []C13_State /\ [][C13_Step]_vars

C13_Witness ==
    \E r \in Slots:
        /\ Done(r, "share") /\ req[r].role = "viewer"
        /\ req[r].before # NoRow /\ Owner(r) /\ req[r].result = "Forbidden"

\* C14: every asset with isShared = true has a non-null sharedUrl.
C14_SharedHasUrl ==
    \A id \in AssetIds:
        (assets[id] # NoRow /\ assets[id].isShared) => assets[id].sharedUrl # NoUrl

C14_Witness ==
    \E id \in AssetIds:
        /\ assets[id] # NoRow /\ assets[id].isShared
        /\ assets[id].sharedUrl = PublicUrl(assets[id].s3Key)

\* The state of an asset id in the lifecycle absent -> active -> shared -> absent.
AssetState(row) ==
    IF row = NoRow THEN "absent" ELSE IF row.isShared THEN "shared" ELSE "active"

\* The step is taken by a request of operation op.
StepOf(op) == \E r \in Slots: req'[r] # req[r] /\ req'[r].op = op

C15_Step ==
    \A id \in AssetIds:
        LET from == AssetState(assets[id])
            to == AssetState(assets'[id])
        IN  \/ from = to
            \/ /\ from = "absent" /\ to = "active"
               /\ StepOf("upload") /\ id = nextId /\ nextId' = nextId + 1
            \/ from = "active" /\ to = "shared" /\ StepOf("share")
            \/ from \in {"active", "shared"} /\ to = "absent" /\ StepOf("delete")

C16_NonBlocking ==
    \A r \in Slots:
        req[r].pc \in {"delete_await", "share_await"} => Settled(req[r].hook)

\* The steps of a handler after its primary work: the activity log and the
\* notification.
AfterPrimary == {"delete_log", "delete_hook", "delete_await",
                 "share_log", "share_hook", "share_await"}

C17_State ==
    \A r \in Slots:
        /\ (Done(r, "upload") /\ req[r].s3Uploaded /\ req[r].error = "none") =>
               /\ req[r].result = "Ok"
               /\ assets[req[r].id] = req[r].asset
               /\ req[r].key \in blobs
        /\ (Done(r, "delete") /\ req[r].s3Deleted /\ req[r].error = "none") =>
               /\ req[r].result = "Ok"
               /\ assets[req[r].id] = NoRow
               /\ req[r].before.s3Key \notin blobs
        /\ (Done(r, "share") /\ req[r].url # NoUrl /\ req[r].error = "none") =>
               /\ req[r].result = "Ok"
               /\ assets[req[r].id] = MarkShared(req[r].before, req[r].url)
               /\ req[r].before.s3Key \in publicKeys
        /\ (Done(r, "download") /\ req[r].url # NoUrl) => req[r].result = "Ok"

C17_Step ==
    /\ \A r \in Slots:
           req[r].pc \in AfterPrimary =>
               /\ UNCHANGED <<assets, blobs, publicKeys>>
               /\ req'[r].error = "none"
               /\ req'[r].pc \in AfterPrimary \cup {"done"}
               /\ req'[r].pc = "done" => req'[r].result = "Ok"
    /\ detached' # detached => UNCHANGED <<assets, blobs, publicKeys>> \/ StepOf("upload")

\* C17: the write of an activity entry and the deliveries of a notification
\* never fail the call and never touch a row or an object: an upload, delete,
\* share or URL issuance whose primary steps succeeded returns success and
\* leaves the same rows and objects, whether the log entry was saved or not and
\* whether the deliveries succeeded or were given up.
C17_SideEffectsDecoupled == []C17_State /\ [][C17_Step]_vars

C17_Witness ==
    \E r \in Slots:
        /\ Done(r, "delete") /\ req[r].result = "Ok"
        /\ "delete" \in req[r].activity /\ "delete" \notin req[r].logged
        /\ req[r].hook["d1"].pc = "gaveup"
        /\ assets[req[r].id] = NoRow

\* The retry loops of every dispatch, awaited or not.
Loops ==
    {detached[id][u] : id \in AssetIds, u \in Urls}
        \cup {req[r].hook[u] : r \in Slots, u \in Urls}

\* Delay in ms slept after failed attempt k (counted from 0).
Backoff(k) == 2 ^ k * 1000

C18_State ==
    \A loop \in Loops:
        /\ loop.posts <= MaxRetries
        /\ loop.pc # "exit"
        /\ loop.pc = "gaveup" => loop.posts = MaxRetries

\* One step of the retry loop of destination u in the dispatch of asset id.
C18_LoopStep(old, new) ==
    /\ (old.pc = "ok" /\ new.pc # "none") => new = old
    /\ (old.pc = "gaveup" /\ new.pc # "none") => new = old
    /\ (old.pc = "post" /\ old.posts = MaxRetries /\ new # old) =>
           new.pc \in {"ok", "gaveup"} /\ new.posts = old.posts

C18_Step ==
    /\ \A id \in AssetIds, u \in Urls: C18_LoopStep(detached[id][u], detached'[id][u])
    /\ \A r \in Slots, u \in Urls:
           (req'[r].op = req[r].op /\ req[r].pc \in {"delete_await", "share_await"}) =>
               C18_LoopStep(req[r].hook[u], req'[r].hook[u])

C18_Terminates ==
    \A id \in AssetIds, u \in Urls:
        (detached[id][u].pc \in {"post", "sleep"}) ~> LoopEnded(detached[id][u])

\* C18: a retry loop makes at most 5 POSTs, makes none after a 2xx, gives up
\* right after the 5th failed POST, and always ends.
C18_RetryBounded == []C18_State /\ [][C18_Step]_vars /\ C18_Terminates

C18_Witness ==
    \E id \in AssetIds, u \in Urls:
        /\ detached[id][u].pc = "gaveup" /\ detached[id][u].posts = MaxRetries
        /\ Settled(detached[id])

\* The POSTs of a loop that have failed so far.
Failed(loop) ==
    IF loop.pc \in {"sleep", "gaveup", "exit"} THEN loop.posts
    ELSE IF loop.pc \in {"post", "ok"} THEN loop.posts - 1
    ELSE 0

Targets(dispatch) == {u \in Urls : dispatch[u].pc # "none"}

C20_State ==
    \A id \in AssetIds:
        /\ \A u \in Targets(detached[id]): detached[id][u].posts >= 1
        /\ \A u \in Urls:
               /\ detached[id][u].pc = "post" =>
                      ENABLED (\E outcome \in Outcomes: DetachedAttempt(id, u, outcome))
               /\ detached[id][u].pc = "sleep" => ENABLED DetachedWake(id, u)
        /\ (Targets(detached[id]) # {} /\ Settled(detached[id])) =>
               ENABLED DetachedSettle(id)

C20_Step ==
    \A id \in AssetIds:
        /\ (detached[id] = NoDispatch /\ detached'[id] # NoDispatch) =>
               Targets(detached'[id]) = {u \in Urls : InList(u, webhookUrls)}
        /\ (detached[id] # NoDispatch /\ detached'[id] # NoDispatch) =>
               \A u, v \in Urls:
                   (u # v /\ detached'[id][u] # detached[id][u]) =>
                       detached'[id][v] = detached[id][v]
        /\ (detached[id] # NoDispatch /\ detached'[id] = NoDispatch) =>
               Settled(detached[id])

\* C20: a dispatch starts a loop, with its first POST, for every registered
\* destination; a loop can always take its next step whatever the state of the
\* other loops, and its steps leave the other loops as they are; the dispatch
\* completes once every loop has ended, also when a destination was given up.
C20_Independent == []C20_State /\ [][C20_Step]_vars

C20_Witness ==
    \E id \in AssetIds:
        /\ detached[id]["d1"].pc = "gaveup"
        /\ detached[id]["d2"].pc = "ok" /\ detached[id]["d2"].posts = 1

\* Storage keys in use: of the rows, and of the objects written by uploads
\* whose row is not saved yet.
C23_State ==
    /\ \A i, j \in AssetIds:
           (i # j /\ assets[i] # NoRow /\ assets[j] # NoRow) =>
               assets[i].s3Key # assets[j].s3Key
    /\ \A r \in Slots, i \in AssetIds:
           (req[r].pc = "upload_save" /\ assets[i] # NoRow) => assets[i].s3Key # req[r].key
    /\ \A r, q \in Slots:
           (r # q /\ req[r].pc = "upload_save" /\ req[q].pc = "upload_save") =>
               req[r].key # req[q].key

C23_Step ==
    \A r \in Slots:
        (req[r].pc = "upload_s3" /\ req'[r].pc = "upload_save") =>
            /\ req'[r].key \notin blobs
            /\ blobs' = blobs \cup {req'[r].key}

\* C23: no two assets have the same storage key, also when the same owner
\* uploads files of the same name one after the other or at the same time, and
\* an upload never writes under a key the store already holds.
C23_UniqueKeys == []C23_State /\ [][C23_Step]_vars

C23_Witness ==
    \E i, j \in AssetIds:
        /\ i # j /\ assets[i] # NoRow /\ assets[j] # NoRow
        /\ assets[i].uploaderId = assets[j].uploaderId
        /\ assets[i].filename = assets[j].filename
        /\ assets[i].s3Key # assets[j].s3Key
        /\ \E r \in Slots: Done(r, "upload") /\ req[r].id = 1

\* C24: a deleteUser that got past the guards removes the user record, also
\* when the deletion of some asset failed, and removes the object and the row
\* of every asset of the user whose deletion did not fail.
C24_CascadeSkipsFailures ==
    \A r \in Slots:
        (Done(r, "deleteUser") /\ req[r].result \notin {"Forbidden", "Unauthorized", "NotFound"}) =>
            /\ users[req[r].target] = NoUser
            /\ req[r].result = "Ok"
            /\ \A id \in AssetIds:
                   (assets[id] # NoRow /\ assets[id].uploaderId = req[r].target) =>
                       id \in req[r].failed

\* A request arrives in slot r: the slot was free and now holds the request of
\* an authenticated route.
Arrives(r) == Free(r) /\ req'[r] # req[r] /\ req'[r].userId \in Users

C29_Step ==
    \A r \in Slots:
        Arrives(r) =>
            LET stored == users[req'[r].userId]
                op     == req'[r].op
                row    == req'[r].before
            IN  /\ req'[r].role = stored
                /\ stored = NoUser =>
                       /\ req'[r].pc = "done" /\ req'[r].result = "Unauthorized"
                       /\ UNCHANGED <<users, assets, nextId, nextUuid, blobs, publicKeys>>
                /\ (stored # "admin" /\ stored # NoUser /\ op \in {"role", "deleteUser"}) =>
                       /\ req'[r].pc = "done" /\ req'[r].result = "Forbidden"
                       /\ UNCHANGED <<users, assets, nextId, nextUuid, blobs, publicKeys>>
                /\ (stored = "viewer" /\ op = "upload") =>
                       req'[r].pc = "done" /\ req'[r].result = "Forbidden"
                /\ (op = "get" /\ row # NoRow /\ stored # NoUser) =>
                       (req'[r].result = "Ok" <=>
                            \/ stored = "admin"
                            \/ (stored = "user" /\ row.uploaderId = req'[r].userId)
                            \/ row.isShared)
                /\ (stored = "admin" /\ op \in {"role", "deleteUser"}) =>
                       req'[r].result \notin {"Forbidden", "Unauthorized"}

\* C29: every request is authorized by the role stored for the principal when
\* the request arrives, whatever role the principal's token was issued with,
\* and a request of a principal whose record was deleted is rejected as
\* unauthenticated and changes nothing.
C29_StoredRole == [][C29_Step]_vars

C29_Witness ==
    /\ TokenRole["u2"] = "user" /\ users["u2"] = "admin"
    /\ TokenRole["u1"] = "admin" /\ users["u1"] = NoUser
    /\ Done("r1", "upload") /\ req["r1"].userId = "u1"
    /\ req["r1"].result = "Unauthorized"

\* The error kinds of the orchestrator's contract.
ErrorKinds == {"NotFound", "Forbidden", "InvalidInput", "StorageFailure"}

\* The text of an exception of the metadata store's driver shows in a message.
CarriesRawText(message) ==
    message \in {DriverMessage, "Failed to upload file: " \o DriverMessage}

\* C25: every failure of uploadAsset, deleteAsset or shareAsset reaches the
\* caller as one of NotFound, Forbidden, InvalidInput, StorageFailure, with a
\* message that holds no text of the underlying exception.
C25_NoRawText ==
    \A r \in Slots:
        (req[r].pc = "done" /\ req[r].op \in {"upload", "delete", "share"}
            /\ req[r].result \notin {"Ok", "Unauthorized"}) =>
                /\ req[r].result \in ErrorKinds
                /\ ~CarriesRawText(req[r].message)

\* C28: when no call is in progress, an object is publicly readable only if a
\* row with isShared = true refers to it; a shareAsset call that failed left
\* the object's access level as it was.
C28_PublicOnlyIfShared ==
    (\A r \in Slots: Free(r)) =>
        \A key \in publicKeys:
            \E id \in AssetIds:
                assets[id] # NoRow /\ assets[id].s3Key = key /\ assets[id].isShared

\* C26: when a deleteAsset call that returned success and a shareAsset or
\* updateAsset call on the same asset have both finished, no row exists for
\* the asset.
C26_DeleteWins ==
    \A d \in Slots, o \in Slots:
        (/\ Done(d, "delete") /\ req[d].result = "Ok"
         /\ req[o].pc = "done" /\ req[o].op \in {"share", "update"}
         /\ req[o].id = req[d].id) =>
            assets[req[d].id] = NoRow

\* C27: when a successful shareAsset call and a successful updateAsset call of
\* the owner on the same asset have both finished, the row is shared with the
\* URL the share stored and holds the tags and description the update supplied.
C27_BothEffects ==
    \A s \in Slots, u \in Slots:
        (/\ Done(s, "share") /\ req[s].result = "Ok"
         /\ Done(u, "update") /\ req[u].result = "Ok"
         /\ req[s].id = req[u].id
         /\ Owner(s) /\ Owner(u)
         /\ assets[req[s].id] # NoRow) =>
            LET row == assets[req[s].id]
            IN  /\ row.isShared
                /\ row.sharedUrl = req[s].url
                /\ row = ApplyUpdates(row, req[u].updates)

\* The last call of verifySignature.
Call == receiver.call

\* The arguments of the last call are those of one delivery.
AsDelivered ==
    [payload |-> Call.payload, signature |-> Call.signature,
     timestamp |-> Call.timestamp] \in receiver.wire

\* The distance between the time of the call and an instant.
Distance(t) == IF Call.now < t THEN t - Call.now ELSE Call.now - t

C22_ReplayProtection ==
    (Call.made /\ Call.result = "true") => Distance(Call.payload[3]) <= FiveMinutes

\* C30: verifySignature returns false when the timestamp argument holds no
\* integer, also for the correct signature of the text.
C30_MalformedTimestamp ==
    (Call.made /\ ParseInt(Call.timestamp).nan) => Call.result = "false"

====
